---- MODULE Spec2Model ----
(***************************************************************************)
(* Model of the nba-score-winpred data pipeline:                           *)
(*   features/extract_features.py   (per-team per-game feature vectors)    *)
(*   features/build_sequences.py    (rolling windows per team)             *)
(*   dataset/dataset_builder.py     (matchup samples and skip counters)    *)
(* The three SQLite tables games, team_features and team_sequences are the *)
(* state.  Python floats are modelled as exact rationals extended with     *)
(* NaN, +Infinity and -Infinity (rounding of finite values is not          *)
(* modelled); JSON values may also be null or missing from a record.       *)
(***************************************************************************)
EXTENDS Integers, Sequences, FiniteSets, TLC

VARIABLES
    games,            \* table games: game_id -> row
    team_features,    \* table team_features: <<team_id, game_id>> -> row
    team_sequences,   \* table team_sequences: <<team_id, game_id>> -> sequence_json
    pc,               \* which operation is running / ran last
    ext,              \* extract_all_features: counters and rows written
    seq,              \* build_sequences_for_team: per team return value and rows written
    asm,              \* build_matchup_samples: loop state, samples, counters
    exp,              \* dataset_builder.main: what the last call converted and saved
    run               \* history: the stages completed and the first pass's results

vars == <<games, team_features, team_sequences, pc, ext, seq, asm, exp, run>>

----------------------------------------------------------------------------
(* Bounds of the model *)

MaxGames == 3
MaxEntries == 3
MaxAttempts == 2
MaxFeedGames == 2

(* Program constants *)
DefaultWindowSize == 10
NumBaseFeatures == 20
NumFeatures == 22
DefaultMinutes == 48

TeamIds == {1, 2, 3}
GameIds == 1 .. MaxGames

----------------------------------------------------------------------------
(* Floating point values: finite rationals n/d (d > 0, lowest terms),      *)
(* NaN, and the two infinities (n = 1 or -1).  "null" is JSON null / None  *)
(* and "missing" a key that the record does not have.                      *)

RECURSIVE GCD(_, _)
GCD(a, b) == IF b = 0 THEN a ELSE GCD(b, a % b)

Abs(x) == IF x < 0 THEN -x ELSE x
Sign(x) == IF x < 0 THEN -1 ELSE IF x > 0 THEN 1 ELSE 0

Fin(n, d) ==
    LET s == IF d < 0 THEN -1 ELSE 1
        g == GCD(Abs(n), Abs(d))
    IN  [k |-> "fin", n |-> (s * n) \div g, d |-> (s * d) \div g]

Num(n) == [k |-> "fin", n |-> n, d |-> 1]
NaN == [k |-> "nan", n |-> 0, d |-> 1]
Inf(s) == [k |-> "inf", n |-> s, d |-> 1]
Null == [k |-> "null", n |-> 0, d |-> 1]
Missing == [k |-> "missing", n |-> 0, d |-> 1]

isnan(x) == x.k = "nan"
isinf(x) == x.k = "inf"
IsFinite(x) == x.k = "fin"

Neg(x) == IF x.k = "nan" THEN NaN ELSE [x EXCEPT !.n = -x.n]

Add(x, y) ==
    IF isnan(x) \/ isnan(y) THEN NaN
    ELSE IF isinf(x) /\ isinf(y) THEN (IF x.n = y.n THEN x ELSE NaN)
    ELSE IF isinf(x) THEN x
    ELSE IF isinf(y) THEN y
    ELSE Fin(x.n * y.d + y.n * x.d, x.d * y.d)

Sub(x, y) == Add(x, Neg(y))

Mul(x, y) ==
    IF isnan(x) \/ isnan(y) THEN NaN
    ELSE IF isinf(x) \/ isinf(y)
         THEN (IF x.n = 0 \/ y.n = 0 THEN NaN ELSE Inf(Sign(x.n) * Sign(y.n)))
    ELSE Fin(x.n * y.n, x.d * y.d)

(* x / y for y # 0 (every division of the program is guarded against 0). *)
Div(x, y) ==
    IF isnan(x) \/ isnan(y) THEN NaN
    ELSE IF isinf(x) /\ isinf(y) THEN NaN
    ELSE IF isinf(x) THEN Inf(x.n * Sign(y.n))
    ELSE IF isinf(y) THEN Num(0)
    ELSE Fin(x.n * y.d, x.d * y.n)

(* x > y and x == y on floats: every comparison with NaN is false. *)
Gt(x, y) ==
    IF isnan(x) \/ isnan(y) THEN FALSE
    ELSE IF isinf(x) THEN x.n = 1 /\ ~(isinf(y) /\ y.n = 1)
    ELSE IF isinf(y) THEN y.n = -1
    ELSE x.n * y.d > y.n * x.d

EqZero(x) == x.k = "fin" /\ x.n = 0

----------------------------------------------------------------------------
(* Raw box-score records (one JSON object per team). *)

StatKeys ==
    {"PTS", "FGM", "FGA", "FG3M", "FG3A", "FTM", "FTA", "AST", "TOV", "OREB",
     "DREB", "REB", "STL", "BLK", "PF", "PLUS_MINUS", "MIN"}
OppKeys == {"FGM", "FGA", "FTA", "OREB", "TOV", "PTS"}

(* entry.get(key, default) followed by float(...): None cannot be converted. *)
Get(entry, key, default) ==
    IF entry[key].k = "missing" THEN Num(default) ELSE entry[key]

CanFloat(entry, keys) == \A key \in keys : entry[key].k # "null"

(* int(entry.get("TEAM_ID", 0)): raises on None, NaN and the infinities,   *)
(* truncates toward zero otherwise.                                        *)
CanInt(entry) == Get(entry, "TEAM_ID", 0).k = "fin"
TeamIdOf(entry) ==
    LET v == Get(entry, "TEAM_ID", 0)
    IN  Sign(v.n) * (Abs(v.n) \div v.d)

safe_divide(numerator, denominator) ==
    IF EqZero(denominator) \/ isnan(denominator) \/ isnan(numerator)
    THEN Num(0)
    ELSE Div(numerator, denominator)

(* The loop over the entries that picks team_entry and opp_entry: a later  *)
(* match overwrites an earlier one, and the opponent test is an elif.      *)
RECURSIVE FindEntries(_, _, _, _, _, _)
FindEntries(entries, i, team_id, opponent_id, team_entry, opp_entry) ==
    IF i > Len(entries) THEN <<team_entry, opp_entry>>
    ELSE IF TeamIdOf(entries[i]) = team_id
         THEN FindEntries(entries, i + 1, team_id, opponent_id, <<entries[i]>>, opp_entry)
    ELSE IF TeamIdOf(entries[i]) = opponent_id
         THEN FindEntries(entries, i + 1, team_id, opponent_id, team_entry, <<entries[i]>>)
    ELSE FindEntries(entries, i + 1, team_id, opponent_id, team_entry, opp_entry)

(* Mutant: only NaN is replaced, the infinities are kept. *)
Sanitize_NaNOnly(x) == IF isnan(x) THEN Num(0) ELSE x

Sanitize(x) == IF isnan(x) \/ isinf(x) THEN Num(0) ELSE x

fg_pct(t) == safe_divide(Get(t, "FGM", 0), Get(t, "FGA", 0))
fg3_pct(t) == safe_divide(Get(t, "FG3M", 0), Get(t, "FG3A", 0))
ft_pct(t) == safe_divide(Get(t, "FTM", 0), Get(t, "FTA", 0))

(* Mutant: a three-pointer made counts as a whole extra field goal. *)
efg_pct_FullWeight(t) ==
    LET fgm == Get(t, "FGM", 0)
        fga == Get(t, "FGA", 0)
        fg3m == Get(t, "FG3M", 0)
    IN  IF Gt(fga, Num(0))
        THEN safe_divide(Add(fgm, fg3m), fga)
        ELSE Num(0)

efg_pct(t) ==
    LET fgm == Get(t, "FGM", 0)
        fga == Get(t, "FGA", 0)
        fg3m == Get(t, "FG3M", 0)
    IN  IF Gt(fga, Num(0))
        THEN safe_divide(Add(fgm, Mul(Fin(1, 2), fg3m)), fga)
        ELSE Num(0)

TsDenominator(t) == Add(Get(t, "FGA", 0), Mul(Fin(11, 25), Get(t, "FTA", 0)))

ts_pct(t) ==
    IF Gt(TsDenominator(t), Num(0))
    THEN safe_divide(Get(t, "PTS", 0), Mul(Num(2), TsDenominator(t)))
    ELSE Num(0)

min_played(t) ==
    LET m == Get(t, "MIN", DefaultMinutes)
    IN  IF EqZero(m) \/ isnan(m) THEN Num(DefaultMinutes) ELSE m

Possessions(e) ==
    Add(Sub(Add(Get(e, "FGA", 0), Mul(Fin(2, 5), Get(e, "FTA", 0))),
            Get(e, "OREB", 0)),
        Get(e, "TOV", 0))

poss(t, o) == Mul(Fin(1, 2), Add(Possessions(t), Possessions(o)))

pace(t, o) ==
    IF Gt(min_played(t), Num(0))
    THEN Mul(poss(t, o), Div(Num(DefaultMinutes), min_played(t)))
    ELSE Num(0)

BaseVector(t, o) ==
    << Get(t, "PTS", 0), fg_pct(t), fg3_pct(t), ft_pct(t), efg_pct(t), ts_pct(t),
       Get(t, "FGA", 0), Get(t, "FG3A", 0), Get(t, "FTA", 0), Get(t, "AST", 0),
       Get(t, "TOV", 0),
       Get(t, "OREB", 0), Get(t, "DREB", 0), Get(t, "REB", 0),
       Get(t, "STL", 0), Get(t, "BLK", 0), Get(t, "PF", 0),
       poss(t, o), pace(t, o),
       Get(t, "PLUS_MINUS", 0) >>

NoFeatures == [ok |-> FALSE, feature_vector |-> << >>, pts |-> Num(0), opp_pts |-> Num(0)]

(* Mutant: only fewer than two records are turned away. *)
extract_features_from_raw_json_AtLeastTwo(raw_json, team_id, opponent_id) ==
    IF Len(raw_json) < 2 THEN NoFeatures
    ELSE IF \E i \in 1 .. Len(raw_json) : ~CanInt(raw_json[i]) THEN NoFeatures
    ELSE
      LET found == FindEntries(raw_json, 1, team_id, opponent_id, << >>, << >>)
      IN  IF found[1] = << >> \/ found[2] = << >> THEN NoFeatures
          ELSE
            LET t == found[1][1]
                o == found[2][1]
                v == BaseVector(t, o)
            IN  IF ~CanFloat(t, StatKeys) \/ ~CanFloat(o, OppKeys) THEN NoFeatures
                ELSE [ok |-> TRUE,
                      feature_vector |-> [i \in 1 .. Len(v) |-> Sanitize(v[i])],
                      pts |-> Get(t, "PTS", 0),
                      opp_pts |-> Get(o, "PTS", 0)]

(* extract_features_from_raw_json: None (NoFeatures) when the record count *)
(* is not 2, a side is not found, or any conversion raises (the except).   *)
extract_features_from_raw_json(raw_json, team_id, opponent_id) ==
    IF Len(raw_json) # 2 THEN NoFeatures
    ELSE IF \E i \in 1 .. Len(raw_json) : ~CanInt(raw_json[i]) THEN NoFeatures
    ELSE
      LET found == FindEntries(raw_json, 1, team_id, opponent_id, << >>, << >>)
      IN  IF found[1] = << >> \/ found[2] = << >> THEN NoFeatures
          ELSE
            LET t == found[1][1]
                o == found[2][1]
                v == BaseVector(t, o)
            IN  IF ~CanFloat(t, StatKeys) \/ ~CanFloat(o, OppKeys) THEN NoFeatures
                ELSE [ok |-> TRUE,
                      feature_vector |-> [i \in 1 .. Len(v) |-> Sanitize(v[i])],
                      pts |-> Get(t, "PTS", 0),
                      opp_pts |-> Get(o, "PTS", 0)]

----------------------------------------------------------------------------
(* Tables.  A table is a function from its primary key to the row. *)

Put(table, key, row) ==
    [k \in DOMAIN table \cup {key} |-> IF k = key THEN row ELSE table[k]]

EmptyTable == [k \in {} |-> 0]

(* ORDER BY game_date, game_id over a set of game ids; date(g) gives the   *)
(* game_date column of the row with game id g.                             *)
(* Mutant: rows are ordered by id alone. *)
Before_ByIdOnly(date, g, h) == g < h

Before(date, g, h) == date[g] < date[h] \/ (date[g] = date[h] /\ g < h)

RECURSIVE OrderBy(_, _)
OrderBy(ids, date) ==
    IF ids = {} THEN << >>
    ELSE LET first == CHOOSE g \in ids : \A h \in ids \ {g} : Before(date, g, h)
         IN  <<first>> \o OrderBy(ids \ {first}, date)

NoExtraction == [inserted |-> 0, skipped |-> 0, written |-> {}]
NoBuild ==
    [window_size |-> 0, report |-> EmptyTable, total_sequences |-> 0,
     teams_with_sequences |-> 0, teams_skipped |-> 0]

NoSamples ==
    [order |-> << >>, i |-> 0, samples |-> << >>, skipped |-> 0,
     skipped_reasons |-> [no_home_sequence |-> 0, no_away_sequence |-> 0,
                          invalid_sequence |-> 0]]

NoTensors ==
    [sequenceA |-> << >>, sequenceB |-> << >>, scoreA |-> << >>, scoreB |-> << >>,
     winA |-> << >>, num_samples |-> 0, sequence_shape |-> << >>, num_features |-> 0]

NoExport == [status |-> "none", tensor_dict |-> NoTensors, ready |-> FALSE]

GameDateOf == [g \in DOMAIN games |-> games[g].game_date]

(* json.dumps / json.loads of a list of floats: Python writes NaN and      *)
(* Infinity and reads them back, and repr round-trips every finite float,  *)
(* so a stored document is the value plus whether it can be parsed.        *)
json_dumps(v) == [ok |-> TRUE, v |-> v]
json_loads_ok(doc) == doc.ok
json_loads(doc) == doc.v

----------------------------------------------------------------------------
(* extract_all_features *)

Bool01(b) == IF b THEN Num(1) ELSE Num(0)

home_feature_vec(home_features, game) ==
    home_features.feature_vector
        \o << Num(1), Bool01(game.home_score > game.away_score) >>

(* Mutant: the away side wins a tie. *)
away_feature_vec_OrTie(away_features, game) ==
    away_features.feature_vector
        \o << Num(0), Bool01(game.away_score >= game.home_score) >>

away_feature_vec(away_features, game) ==
    away_features.feature_vector
        \o << Num(0), Bool01(game.away_score > game.home_score) >>

FeatureRow(game, vec) == [game_date |-> game.game_date, feature_vector_json |-> json_dumps(vec)]

(* "if features: INSERT OR REPLACE ...; inserted += 1 / else: skipped += 1" *)
StoreSide(st, features, key, row) ==
    IF features.ok
    THEN [st EXCEPT !.table = Put(st.table, key, row),
                    !.inserted = st.inserted + 1,
                    !.written = st.written \cup {key}]
    ELSE [st EXCEPT !.skipped = st.skipped + 1]

(* One iteration of the loop over the games: the home side, then the away  *)
(* side.                                                                   *)
ExtractSides(st, game_id, game, home_features, away_features) ==
    StoreSide(
        StoreSide(st, home_features, <<game.home_team_id, game_id>>,
                  FeatureRow(game, home_feature_vec(home_features, game))),
        away_features, <<game.away_team_id, game_id>>,
        FeatureRow(game, away_feature_vec(away_features, game)))

ExtractGame(st, game_id, game) ==
    ExtractSides(st, game_id, game,
        extract_features_from_raw_json(game.raw_json, game.home_team_id, game.away_team_id),
        extract_features_from_raw_json(game.raw_json, game.away_team_id, game.home_team_id))

RECURSIVE ExtractLoop(_, _, _)
ExtractLoop(st, order, i) ==
    IF i > Len(order) THEN st
    ELSE ExtractLoop(ExtractGame(st, order[i], games[order[i]]), order, i + 1)

ExtractAllFeatures ==
    /\ pc # "sampling"
    /\ LET st == ExtractLoop([table |-> team_features, inserted |-> 0, skipped |-> 0,
                              written |-> {}],
                             OrderBy(DOMAIN games, GameDateOf), 1)
       IN  /\ team_features' = st.table
           /\ ext' = [inserted |-> st.inserted, skipped |-> st.skipped,
                      written |-> st.written]
    /\ pc' = "extracted"
    /\ seq' = NoBuild
    /\ asm' = NoSamples
    /\ exp' = NoExport
    /\ UNCHANGED <<games, team_sequences>>

----------------------------------------------------------------------------
(* build_sequences_for_team / build_all_sequences *)

WindowSizes == {2, 3}

FeatureGamesOf(features, team_id) == {k[2] : k \in {x \in DOMAIN features : x[1] = team_id}}

(* Mutant: the rows come back in game id order, whatever their date. *)
TeamGames_ByGameId(features, team_id) ==
    OrderBy(FeatureGamesOf(features, team_id),
            [g \in FeatureGamesOf(features, team_id) |-> 0])

(* SELECT ... FROM team_features WHERE team_id = ? ORDER BY game_date, game_id *)
TeamGames(features, team_id) ==
    LET ids == FeatureGamesOf(features, team_id)
    IN  OrderBy(ids, [g \in ids |-> features[<<team_id, g>>].game_date])

(* games[i - window_size + 1 : i + 1] with i counted from 0; rows is        *)
(* 1-based here, so the window that ends at rows[i] starts at i - W + 1.   *)
WindowGames(rows, i, window_size) == SubSeq(rows, i - window_size + 1, i)

SameLength(sequence) ==
    Cardinality({Len(sequence[j]) : j \in 1 .. Len(sequence)}) = 1

(* Mutant: a sequence already stored under the key is extended with the   *)
(* new window instead of being replaced by it.                             *)
StoreWindow_Appends(st, team_id, docs, current_game_id, window_size) ==
    IF \E j \in 1 .. Len(docs) : ~json_loads_ok(docs[j])
    THEN [st EXCEPT !.st = "abort"]
    ELSE IF Len(docs) # window_size THEN st
    ELSE IF ~SameLength([j \in 1 .. Len(docs) |-> json_loads(docs[j])]) THEN st
    ELSE [st EXCEPT !.table = Put(st.table, <<team_id, current_game_id>>,
                                  json_dumps(
                                    (IF <<team_id, current_game_id>> \in DOMAIN st.table
                                     THEN st.table[<<team_id, current_game_id>>].v
                                     ELSE << >>)
                                    \o [j \in 1 .. Len(docs) |-> json_loads(docs[j])])),
                    !.sequences_created = st.sequences_created + 1,
                    !.written = Append(st.written, current_game_id)]

(* The body of the window loop once the window's documents are read: the  *)
(* early return when one cannot be parsed, the two validations, the write. *)
StoreWindow(st, team_id, docs, current_game_id, window_size) ==
    IF \E j \in 1 .. Len(docs) : ~json_loads_ok(docs[j])
    THEN [st EXCEPT !.st = "abort"]
    ELSE IF Len(docs) # window_size THEN st
    ELSE IF ~SameLength([j \in 1 .. Len(docs) |-> json_loads(docs[j])]) THEN st
    ELSE [st EXCEPT !.table = Put(st.table, <<team_id, current_game_id>>,
                                  json_dumps([j \in 1 .. Len(docs) |-> json_loads(docs[j])])),
                    !.sequences_created = st.sequences_created + 1,
                    !.written = Append(st.written, current_game_id)]

ReadWindow(st, features, team_id, window_games, window_size) ==
    StoreWindow(st, team_id,
                [j \in 1 .. Len(window_games) |->
                    features[<<team_id, window_games[j]>>].feature_vector_json],
                window_games[Len(window_games)], window_size)

(* One iteration of "for i in range(window_size - 1, len(games))".         *)
(* st.st is "run" while the loop runs and "abort" after the early return   *)
(* taken when a stored vector cannot be parsed.                            *)
BuildWindow(st, features, team_id, rows, i, window_size) ==
    ReadWindow(st, features, team_id, WindowGames(rows, i, window_size), window_size)

RECURSIVE BuildWindows(_, _, _, _, _, _)
BuildWindows(st, features, team_id, rows, i, window_size) ==
    IF i > Len(rows) \/ st.st = "abort" THEN st
    ELSE BuildWindows(BuildWindow(st, features, team_id, rows, i, window_size),
                      features, team_id, rows, i + 1, window_size)

(* The whole call: the rows written are committed only when the loop ends  *)
(* normally; both early returns close the connection without a commit.     *)
FinishBuild(sequences, st, n) ==
    IF st.st = "abort"
    THEN [table |-> sequences, ret |-> st.sequences_created, written |-> << >>, n |-> n]
    ELSE [table |-> st.table, ret |-> st.sequences_created, written |-> st.written, n |-> n]

(* Mutant: the loop starts at index window_size, one window too late. *)
BuildRows_StartsLate(sequences, features, team_id, rows, window_size) ==
    IF Len(rows) < window_size
    THEN [table |-> sequences, ret |-> 0, written |-> << >>, n |-> Len(rows)]
    ELSE FinishBuild(sequences,
                     BuildWindows([table |-> sequences, sequences_created |-> 0,
                                   written |-> << >>, st |-> "run"],
                                  features, team_id, rows, window_size + 1, window_size),
                     Len(rows))

(* Mutant: a team with exactly window_size games is turned away too. *)
BuildRows_NeedsMore(sequences, features, team_id, rows, window_size) ==
    IF Len(rows) <= window_size
    THEN [table |-> sequences, ret |-> 0, written |-> << >>, n |-> Len(rows)]
    ELSE FinishBuild(sequences,
                     BuildWindows([table |-> sequences, sequences_created |-> 0,
                                   written |-> << >>, st |-> "run"],
                                  features, team_id, rows, window_size, window_size),
                     Len(rows))

BuildRows(sequences, features, team_id, rows, window_size) ==
    IF Len(rows) < window_size
    THEN [table |-> sequences, ret |-> 0, written |-> << >>, n |-> Len(rows)]
    ELSE FinishBuild(sequences,
                     BuildWindows([table |-> sequences, sequences_created |-> 0,
                                   written |-> << >>, st |-> "run"],
                                  features, team_id, rows, window_size, window_size),
                     Len(rows))

build_sequences_for_team(sequences, features, team_id, window_size) ==
    BuildRows(sequences, features, team_id, TeamGames(features, team_id), window_size)

(* SELECT DISTINCT team_id FROM team_features ORDER BY team_id, as a set:  *)
(* the calls for different teams write disjoint keys.                      *)
FeatureTeams(features) == {k[1] : k \in DOMAIN features}

(* "for team_id in team_ids": the call and the three counters. *)
CountTeam(st, team_id, r) ==
    [table |-> r.table,
     report |-> Put(st.report, team_id, [ret |-> r.ret, written |-> r.written, n |-> r.n]),
     total_sequences |-> st.total_sequences + r.ret,
     teams_with_sequences |-> st.teams_with_sequences + (IF r.ret > 0 THEN 1 ELSE 0),
     teams_skipped |-> st.teams_skipped + (IF r.ret > 0 THEN 0 ELSE 1)]

MinTeam(teams) == CHOOSE t \in teams : \A u \in teams : t <= u

RECURSIVE BuildTeams(_, _, _, _)
BuildTeams(st, features, teams, window_size) ==
    IF teams = {} THEN st
    ELSE BuildTeams(CountTeam(st, MinTeam(teams),
                        build_sequences_for_team(st.table, features, MinTeam(teams),
                                                 window_size)),
                    features, teams \ {MinTeam(teams)}, window_size)

BuildAllSequences(window_size) ==
    /\ pc # "sampling"
    /\ LET st == BuildTeams([table |-> team_sequences, report |-> EmptyTable,
                             total_sequences |-> 0, teams_with_sequences |-> 0,
                             teams_skipped |-> 0],
                            team_features, FeatureTeams(team_features), window_size)
       IN  /\ team_sequences' = st.table
           /\ seq' = [window_size |-> window_size, report |-> st.report,
                      total_sequences |-> st.total_sequences,
                      teams_with_sequences |-> st.teams_with_sequences,
                      teams_skipped |-> st.teams_skipped]
    /\ pc' = "built"
    /\ ext' = NoExtraction
    /\ asm' = NoSamples
    /\ exp' = NoExport
    /\ UNCHANGED <<games, team_features>>

----------------------------------------------------------------------------
(* load_sequence / build_matchup_samples *)

RECURSIVE IsPowerOfTwo(_)
IsPowerOfTwo(d) == d = 1 \/ (d > 1 /\ d % 2 = 0 /\ IsPowerOfTwo(d \div 2))

(* Conversion to float32: the small dyadic rationals of the model are      *)
(* exact; any other finite value becomes the float32 nearest to n/d, kept  *)
(* as a value of its own kind.                                             *)
Float32(x) ==
    IF x.k = "fin" /\ ~IsPowerOfTwo(x.d) THEN [x EXCEPT !.k = "fin32"] ELSE x

IsRectangular(rows) ==
    \A j \in 1 .. Len(rows) : Len(rows[j]) = Len(rows[1])

NoArray == [found |-> FALSE, shape |-> << >>, data |-> << >>]

(* np.array(sequence, dtype=np.float32): a list of equally long lists of   *)
(* numbers gives a 2-dimensional array, the empty list a 1-dimensional     *)
(* one, and a ragged list raises (caught: None).                           *)
np_array(rows) ==
    IF Len(rows) = 0 THEN [found |-> TRUE, shape |-> <<0>>, data |-> << >>]
    ELSE IF ~IsRectangular(rows) THEN NoArray
    ELSE [found |-> TRUE,
          shape |-> <<Len(rows), Len(rows[1])>>,
          data |-> [j \in 1 .. Len(rows) |->
                      [c \in 1 .. Len(rows[j]) |-> Float32(rows[j][c])]]]

load_sequence(sequences, team_id, game_id) ==
    IF <<team_id, game_id>> \notin DOMAIN sequences THEN NoArray
    ELSE IF ~json_loads_ok(sequences[<<team_id, game_id>>]) THEN NoArray
    ELSE np_array(json_loads(sequences[<<team_id, game_id>>]))

(* Mutant: a tie counts as a home win. *)
win_home_OrTie(home_score, away_score) == IF home_score >= away_score THEN 1 ELSE 0

win_home(home_score, away_score) == IF home_score > away_score THEN 1 ELSE 0

(* Mutant: the window lengths of the two arrays are not compared. *)
SkipReason_NoLengthCheck(home_sequence, away_sequence) ==
    IF ~home_sequence.found THEN "no_home_sequence"
    ELSE IF ~away_sequence.found THEN "no_away_sequence"
    ELSE IF Len(home_sequence.shape) # 2 \/ Len(away_sequence.shape) # 2
         THEN "invalid_sequence"
    ELSE "none"

(* Mutant: the away sequence is looked at before the home sequence. *)
SkipReason_AwayFirst(home_sequence, away_sequence) ==
    IF ~away_sequence.found THEN "no_away_sequence"
    ELSE IF ~home_sequence.found THEN "no_home_sequence"
    ELSE IF Len(home_sequence.shape) # 2 \/ Len(away_sequence.shape) # 2
         THEN "invalid_sequence"
    ELSE IF home_sequence.shape[1] # away_sequence.shape[1] THEN "invalid_sequence"
    ELSE "none"

(* Which branch of the loop body a game takes. *)
SkipReason(home_sequence, away_sequence) ==
    IF ~home_sequence.found THEN "no_home_sequence"
    ELSE IF ~away_sequence.found THEN "no_away_sequence"
    ELSE IF Len(home_sequence.shape) # 2 \/ Len(away_sequence.shape) # 2
         THEN "invalid_sequence"
    ELSE IF home_sequence.shape[1] # away_sequence.shape[1] THEN "invalid_sequence"
    ELSE "none"

(* Mutant: the two sequences change places. *)
MakeSample_Swapped(game_id, game, home_sequence, away_sequence) ==
    [game_id |-> game_id,
     game_date |-> game.game_date,
     teamA_id |-> game.home_team_id,
     teamB_id |-> game.away_team_id,
     sequenceA |-> away_sequence,
     sequenceB |-> home_sequence,
     scoreA |-> game.home_score,
     scoreB |-> game.away_score,
     winA |-> win_home(game.home_score, game.away_score)]

MakeSample(game_id, game, home_sequence, away_sequence) ==
    [game_id |-> game_id,
     game_date |-> game.game_date,
     teamA_id |-> game.home_team_id,
     teamB_id |-> game.away_team_id,
     sequenceA |-> home_sequence,
     sequenceB |-> away_sequence,
     scoreA |-> game.home_score,
     scoreB |-> game.away_score,
     winA |-> win_home(game.home_score, game.away_score)]

(* The query and the initialisation of the accumulators. *)
StartSamples ==
    /\ pc # "sampling"
    /\ asm' = [NoSamples EXCEPT !.order = OrderBy(DOMAIN games, GameDateOf)]
    /\ pc' = "sampling"
    /\ ext' = NoExtraction
    /\ seq' = NoBuild
    /\ exp' = NoExport
    /\ UNCHANGED <<games, team_features, team_sequences>>

(* Mutant: a rejected game is added to its reason only, not to the total. *)
Assemble_NoTotal(a, game_id, game, home_sequence, away_sequence, reason) ==
    IF reason = "none"
    THEN [a EXCEPT !.i = a.i + 1,
                   !.samples = Append(a.samples,
                       MakeSample(game_id, game, home_sequence, away_sequence))]
    ELSE [a EXCEPT !.i = a.i + 1,
                   !.skipped_reasons[reason] = a.skipped_reasons[reason] + 1]

(* The body of the loop once both sequences are loaded. *)
Assemble(a, game_id, game, home_sequence, away_sequence, reason) ==
    IF reason = "none"
    THEN [a EXCEPT !.i = a.i + 1,
                   !.samples = Append(a.samples,
                       MakeSample(game_id, game, home_sequence, away_sequence))]
    ELSE [a EXCEPT !.i = a.i + 1,
                   !.skipped = a.skipped + 1,
                   !.skipped_reasons[reason] = a.skipped_reasons[reason] + 1]

LoadAndAssemble(a, game_id, game, home_sequence, away_sequence) ==
    Assemble(a, game_id, game, home_sequence, away_sequence,
             SkipReason(home_sequence, away_sequence))

(* One iteration of "for game in games". *)
SampleStep ==
    /\ pc = "sampling"
    /\ asm.i < Len(asm.order)
    /\ asm' = LoadAndAssemble(asm, asm.order[asm.i + 1], games[asm.order[asm.i + 1]],
                  load_sequence(team_sequences,
                                games[asm.order[asm.i + 1]].home_team_id,
                                asm.order[asm.i + 1]),
                  load_sequence(team_sequences,
                                games[asm.order[asm.i + 1]].away_team_id,
                                asm.order[asm.i + 1]))
    /\ UNCHANGED <<games, team_features, team_sequences, pc, ext, seq, exp>>

(* convert_to_tensors: np.array(list of arrays, dtype=np.float32) gives an *)
(* array of shape (n,) + shape of the elements when all elements have the  *)
(* same shape, and raises otherwise.                                       *)
np_stack(arrays) ==
    IF Len(arrays) = 0 THEN [ok |-> TRUE, shape |-> <<0>>]
    ELSE IF \A j \in 1 .. Len(arrays) : arrays[j].shape = arrays[1].shape
         THEN [ok |-> TRUE, shape |-> <<Len(arrays)>> \o arrays[1].shape]
    ELSE [ok |-> FALSE, shape |-> << >>]

(* The loop is over: the report is printed and the samples returned. *)
FinishSamples ==
    /\ pc = "sampling"
    /\ asm.i = Len(asm.order)
    /\ pc' = "assembled"
    /\ UNCHANGED <<games, team_features, team_sequences, ext, seq, asm, exp>>

----------------------------------------------------------------------------
(* convert_to_tensors / save_dataset / main, and the last lines of         *)
(* run_full_pipeline.                                                      *)

(* np.nan_to_num(x, nan=0.0, posinf=0.0, neginf=0.0) on one element. *)
(* Mutant: only NaN is replaced. *)
nan_to_num_NaNOnly(x) == IF isnan(x) THEN Num(0) ELSE x

nan_to_num(x) == IF isnan(x) \/ isinf(x) THEN Num(0) ELSE x

Column(samples, field) == [j \in 1 .. Len(samples) |-> samples[j][field]]

(* The data of a stacked array, element by element through nan_to_num. *)
StackData(arrays) ==
    [j \in 1 .. Len(arrays) |->
        [r \in 1 .. Len(arrays[j].data) |->
            [c \in 1 .. Len(arrays[j].data[r]) |-> nan_to_num(arrays[j].data[r][c])]]]

(* convert_to_tensors: raises when the sequences cannot be stacked. *)
convert_to_tensors(samples) ==
    LET a == np_stack(Column(samples, "sequenceA"))
        b == np_stack(Column(samples, "sequenceB"))
    IN  IF ~a.ok \/ ~b.ok \/ Len(a.shape) < 3
        THEN [ok |-> FALSE, tensor_dict |-> NoTensors]
        ELSE [ok |-> TRUE,
              tensor_dict |->
                [sequenceA |-> StackData(Column(samples, "sequenceA")),
                 sequenceB |-> StackData(Column(samples, "sequenceB")),
                 scoreA |-> [j \in 1 .. Len(samples) |-> <<samples[j].scoreA>>],
                 scoreB |-> [j \in 1 .. Len(samples) |-> <<samples[j].scoreB>>],
                 winA |-> [j \in 1 .. Len(samples) |-> <<samples[j].winA>>],
                 num_samples |-> Len(samples),
                 sequence_shape |-> SubSeq(a.shape, 2, 3),
                 num_features |-> a.shape[3]]]

(* main after build_matchup_samples has returned: with no samples it       *)
(* prints an error and returns; otherwise it converts and saves, and an    *)
(* exception of the conversion leaves it.  "ready" is whether the caller,  *)
(* run_full_pipeline, goes on to print that the training data is ready:   *)
(* it does whenever main returns.                                          *)
dataset_main(samples) ==
    IF Len(samples) = 0
    THEN [status |-> "empty", tensor_dict |-> NoTensors, ready |-> TRUE]
    ELSE IF ~convert_to_tensors(samples).ok
         THEN [status |-> "raised", tensor_dict |-> NoTensors, ready |-> FALSE]
    ELSE [status |-> "saved", tensor_dict |-> convert_to_tensors(samples).tensor_dict,
          ready |-> TRUE]

Export ==
    /\ pc = "assembled"
    /\ exp' = dataset_main(asm.samples)
    /\ pc' = "exported"
    /\ UNCHANGED <<games, team_features, team_sequences, ext, seq, asm>>

----------------------------------------------------------------------------
(* Inputs: raw records and rows of the games table. *)

Entry(team_id, fgm, fga, fg3m, fg3a, ftm, fta, ast, minutes) ==
    [TEAM_ID |-> Num(team_id),
     PTS |-> Num(2 * fgm + fg3m + ftm),
     FGM |-> Num(fgm), FGA |-> Num(fga), FG3M |-> Num(fg3m), FG3A |-> Num(fg3a),
     FTM |-> Num(ftm), FTA |-> Num(fta),
     AST |-> Num(ast), TOV |-> Num(1), OREB |-> Num(1), DREB |-> Num(2),
     REB |-> Num(3), STL |-> Num(1), BLK |-> Num(0), PF |-> Num(1),
     PLUS_MINUS |-> Missing, MIN |-> minutes]

(* A record that scores pts points from the free-throw line; the assists   *)
(* column carries the game id so that no two games give the same vector.   *)
SimpleEntry(team_id, game_id, pts) ==
    Entry(team_id, 0, 1, 0, 0, pts, 2, game_id, Num(240))

GameRow(game_date, home, away, raw_json) ==
    [game_date |-> game_date,
     home_team_id |-> TeamIdOf(home),
     away_team_id |-> TeamIdOf(away),
     home_score |-> home.PTS.n,
     away_score |-> away.PTS.n,
     raw_json |-> raw_json]

Scores == {<<2, 1>>, <<1, 2>>, <<1, 1>>}
Matchups == {m \in TeamIds \X TeamIds : m[1] # m[2]}

(* The row of game g between m[1] (home) and m[2] (away) on date d with    *)
(* the final score s; the away record comes first in raw_json.             *)
SimpleRow(g, d, m, s) ==
    GameRow(d, SimpleEntry(m[1], g, s[1]), SimpleEntry(m[2], g, s[2]),
            <<SimpleEntry(m[2], g, s[2]), SimpleEntry(m[1], g, s[1])>>)

(* Scores of the schedule family: game g has the g-th of the three         *)
(* outcomes (home win, away win, tie), cyclically.                         *)
ScoreOf(g) == IF g % 3 = 1 THEN <<2, 1>> ELSE IF g % 3 = 2 THEN <<1, 2>> ELSE <<1, 1>>

(* The calendars of the schedule family: dates in game id order, in the    *)
(* opposite order, all games on one day, and even ids before odd ids.      *)
Calendars == {"by id", "reverse", "one day", "even first"}
DateIn(calendar, g) ==
    CASE calendar = "by id" -> g
      [] calendar = "reverse" -> MaxGames + 1 - g
      [] calendar = "one day" -> 1
      [] calendar = "even first" -> 1 + (g % 2)

(* The schedule family: one calendar, and every game between any two       *)
(* teams, either of them at home.  The code never looks at what a team id  *)
(* is, so the first game is taken to be team 1 hosting team 2.             *)
ScheduleRow(calendar, g, m) ==
    SimpleRow(g, DateIn(calendar, g), IF g = 1 THEN <<1, 2>> ELSE m, ScoreOf(g))

ScheduleTables ==
    { [g \in GameIds |-> ScheduleRow(calendar, g, m[g])] :
        calendar \in Calendars, m \in [GameIds -> Matchups] }

(* ingest_games.main: the rows of the league feed (one per team and game)  *)
(* are filtered, grouped by GAME_ID in feed order and written to games.    *)
(* MATCHUP is "BOS vs. LAL" on the home team's row and "LAL @ BOS" on the  *)
(* away team's; only the presence of "@" is looked at.                     *)
Markers == {"vs.", "@", "null"}
SeasonIds == {"22023", "42023"}
StartsWith2(season_id) == season_id = "22023"
HasAt(matchup) == matchup = "@"
IsLeagueTeam(team_id) == team_id \in TeamIds

FeedRow(g, team_id, matchup, pts, season_id) ==
    SimpleEntry(team_id, g, pts)
      @@ [GAME_ID |-> g, GAME_DATE |-> g, SEASON_ID |-> season_id, MATCHUP |-> matchup]

(* Lines 53-68: regular season only, MATCHUP present, a league team. *)
Kept(r) ==
    /\ StartsWith2(r.SEASON_ID)
    /\ r.MATCHUP # "null"
    /\ IsLeagueTeam(TeamIdOf(r))

(* Lines 76-78: the rows of one game, in feed order. *)
EntriesOf(rows, g) ==
    LET OfGame(r) == Kept(r) /\ r.GAME_ID = g
    IN  SelectSeq(rows, OfGame)

(* Lines 91-111: the tests that skip a game. *)
Accepted(entries) ==
    /\ Len(entries) = 2
    /\ entries[1].MATCHUP # "null"
    /\ entries[2].MATCHUP # "null"
    /\ IsLeagueTeam(TeamIdOf(entries[1]))
    /\ IsLeagueTeam(TeamIdOf(entries[2]))

(* Mutant: the first record is the home team's. *)
IngestRow_ByPosition(entries) ==
    GameRow(entries[1].GAME_DATE, entries[1], entries[2], entries)

(* Lines 115-152: home and away from the marker of the first record, and   *)
(* the row that is written.                                                *)
IngestRow(entries) ==
    IF HasAt(entries[1].MATCHUP)
    THEN GameRow(entries[2].GAME_DATE, entries[2], entries[1], entries)
    ELSE GameRow(entries[1].GAME_DATE, entries[1], entries[2], entries)

ingest_main(table, rows) ==
    LET stored == {g \in {rows[i].GAME_ID : i \in 1 .. Len(rows)} :
                     Accepted(EntriesOf(rows, g))}
    IN  [g \in DOMAIN table \cup stored |->
            IF g \in stored THEN IngestRow(EntriesOf(rows, g)) ELSE table[g]]

(* The feed family: per game the rows of team 1 (2 points) and team 2      *)
(* (1 point) with every pair of markers, in either order; or the           *)
(* well-formed pair with team 1's row from the playoffs, with a third row  *)
(* of a league team, with a row of a team outside the league before it, or *)
(* listed twice.                                                           *)
FeedIds == 1 .. MaxFeedGames

PairOf(g, m1, m2, season_id) ==
    <<FeedRow(g, 1, m1, 2, season_id), FeedRow(g, 2, m2, 1, "22023")>>

Swapped(entries) == <<entries[2], entries[1]>>

ListingChoices ==
    (Markers \X Markers \X {"as is", "swapped"})
      \cup ({"vs."} \X {"@"} \X {"playoffs", "third", "outsider", "twice"})

ListingOf(g, c) ==
    CASE c[3] = "as is" -> PairOf(g, c[1], c[2], "22023")
      [] c[3] = "swapped" -> Swapped(PairOf(g, c[1], c[2], "22023"))
      [] c[3] = "playoffs" -> PairOf(g, c[1], c[2], "42023")
      [] c[3] = "third" ->
           PairOf(g, c[1], c[2], "22023") \o <<FeedRow(g, 3, "@", 1, "22023")>>
      [] c[3] = "outsider" ->
           <<FeedRow(g, 0, "@", 1, "22023")>> \o Swapped(PairOf(g, c[1], c[2], "22023"))
      [] c[3] = "twice" ->
           PairOf(g, c[1], c[2], "22023") \o PairOf(g, c[1], c[2], "22023")

RECURSIVE Concat(_, _)
Concat(listing, n) == IF n = 0 THEN << >> ELSE Concat(listing, n - 1) \o listing[n]

Feeds ==
    {Concat([g \in FeedIds |-> ListingOf(g, c[g])], MaxFeedGames) :
       c \in [FeedIds -> ListingChoices]}

Ingest(rows) ==
    /\ pc = "empty"
    /\ games' = ingest_main(games, rows)
    /\ pc' = "ingested"
    /\ UNCHANGED <<team_features, team_sequences, ext, seq, asm, exp>>

(* The outcome family: teams 1 and 2 meet in every game, on dates in game  *)
(* id order, with every final score.                                       *)
OutcomeChoices == {<<1, 2>>, <<2, 1>>} \X Scores
OutcomeRow(g, c) == SimpleRow(g, 1, c[1], c[2])

OutcomeTables ==
    { [g \in GameIds |-> OutcomeRow(g, c[g])] : c \in [GameIds -> OutcomeChoices] }

(* The scenario family: with the default window, team 1 has one game less  *)
(* than a window (9) and team 2 two more (12).  The two meet once, in the  *)
(* p-th of team 2's games, at either venue; all their other games are      *)
(* against team 3.                                                         *)
ScenarioGamesA == DefaultWindowSize - 1
ScenarioGamesB == DefaultWindowSize + 2
ScenarioIds == 1 .. (ScenarioGamesA + ScenarioGamesB - 1)

ScenarioRow(g, p, a_home) ==
    SimpleRow(g, g,
              IF g = p THEN (IF a_home THEN <<1, 2>> ELSE <<2, 1>>)
              ELSE IF g <= ScenarioGamesB THEN <<2, 3>>
              ELSE <<1, 3>>,
              ScoreOf(g))

ScenarioTables ==
    { [g \in ScenarioIds |-> ScenarioRow(g, p, a_home)] :
        p \in 1 .. ScenarioGamesB, a_home \in BOOLEAN }

----------------------------------------------------------------------------
(* Inputs of the extraction specification: one game with arbitrary raw     *)
(* records, followed by one plain game.                                    *)

ShotLines ==
    { l \in [fgm : 0 .. MaxAttempts, fga : 0 .. MaxAttempts,
             fg3m : 0 .. MaxAttempts, fg3a : 0 .. MaxAttempts,
             ftm : 0 .. MaxAttempts, fta : 0 .. MaxAttempts] :
        /\ l.fg3m <= l.fg3a /\ l.fg3a <= l.fga
        /\ l.fg3m <= l.fgm
        /\ l.fgm - l.fg3m <= l.fga - l.fg3a
        /\ l.ftm <= l.fta }

MinutesValues == {Num(240), Num(0), Missing}

ValidEntries(team_id) ==
    { Entry(team_id, l.fgm, l.fga, l.fg3m, l.fg3a, l.ftm, l.fta, 4, m) :
        l \in ShotLines, m \in MinutesValues }

BaseEntry(team_id) == Entry(team_id, 1, 2, 1, 1, 1, 2, 4, Num(240))

Specials == {NaN, Inf(1), Inf(-1), Null, Missing}

DegenerateEntries(team_id, keys) ==
    { [BaseEntry(team_id) EXCEPT ![key] = v] : key \in keys, v \in Specials }

(* <<side record, opponent record>> of team 1 against team 2. *)
StatPairs ==
    (ValidEntries(1) \X {BaseEntry(2)})
        \cup (DegenerateEntries(1, StatKeys)
                \X ({BaseEntry(2)} \cup DegenerateEntries(2, OppKeys)))

StatRows ==
    { GameRow(1, BaseEntry(1), BaseEntry(2), raw) :
        raw \in {<<q[1], q[2]>> : q \in StatPairs} \cup {<<q[2], q[1]>> : q \in StatPairs} }

TeamIdValues == {Num(1), Num(2), Num(3), Null, Missing}

RawOfIds(ids) == [i \in 1 .. Len(ids) |-> [BaseEntry(0) EXCEPT !.TEAM_ID = ids[i]]]

IdRows ==
    { [GameRow(1, BaseEntry(h), BaseEntry(a), RawOfIds(ids)) EXCEPT
          !.home_score = 2, !.away_score = 1] :
        h \in {1, 2}, a \in {1, 2},
        ids \in UNION {[1 .. n -> TeamIdValues] : n \in 0 .. MaxEntries} }

StatTables ==
    { [g \in {1, 2} |-> IF g = 1 THEN row ELSE SimpleRow(2, 2, <<1, 2>>, <<2, 1>>)] :
        row \in StatRows \cup IdRows }

(* The history kept for the re-run specification; the other               *)
(* specifications leave it alone.                                          *)
NoRun ==
    [stage |-> 0, window_size |-> 0, features |-> EmptyTable, sequences |-> EmptyTable,
     samples |-> 0, skipped_reasons |-> NoSamples.skipped_reasons]

(* After initialize_db and an ingestion: derived tables empty. *)
InitWith(tables) ==
    /\ games \in tables
    /\ team_features = EmptyTable
    /\ team_sequences = EmptyTable
    /\ pc = "ingested"
    /\ ext = NoExtraction
    /\ seq = NoBuild
    /\ asm = NoSamples
    /\ exp = NoExport
    /\ run = NoRun

Init == InitWith(ScheduleTables)

Next ==
    \/ ExtractAllFeatures /\ UNCHANGED run
    \/ \E window_size \in WindowSizes : BuildAllSequences(window_size) /\ UNCHANGED run
    \/ StartSamples /\ UNCHANGED run
    \/ SampleStep /\ UNCHANGED run
    \/ FinishSamples /\ UNCHANGED run
    \/ Export /\ UNCHANGED run

Spec == Init /\ [][Next]_vars

(* The pipeline on the outcome family. *)
InitOutcome == InitWith(OutcomeTables)
SpecOutcome == InitOutcome /\ [][Next]_vars

(* The pipeline with the default window size on the scenario family. *)
InitScenario == InitWith(ScenarioTables)
NextScenario ==
    \/ ExtractAllFeatures /\ UNCHANGED run
    \/ BuildAllSequences(DefaultWindowSize) /\ UNCHANGED run
    \/ StartSamples /\ UNCHANGED run
    \/ SampleStep /\ UNCHANGED run
    \/ FinishSamples /\ UNCHANGED run
    \/ Export /\ UNCHANGED run
SpecScenario == InitScenario /\ [][NextScenario]_vars

(* The stages run again and again with one window size on an unchanged    *)
(* games table.  run.stage counts how far the order extraction, sequence   *)
(* building, assembly, and the same three once more, has been completed;   *)
(* the stores and counters at the end of the first assembly are kept.      *)
RerunTables ==
    { [g \in GameIds |-> ScheduleRow("even first", g, m[g])] : m \in [GameIds -> Matchups] }

InitRerun == InitWith(RerunTables)

Advance(stages) == [run EXCEPT !.stage = IF @ \in stages THEN @ + 1 ELSE @]

RerunExtract ==
    /\ ExtractAllFeatures
    /\ run' = Advance({0, 3})

RerunBuild(window_size) ==
    /\ run.window_size \in {0, window_size}
    /\ BuildAllSequences(window_size)
    /\ run' = [Advance({1, 4}) EXCEPT !.window_size = window_size]

RerunFinish ==
    /\ FinishSamples
    /\ run' = IF run.stage = 2
              THEN [run EXCEPT !.stage = 3,
                               !.features = team_features,
                               !.sequences = team_sequences,
                               !.samples = Len(asm.samples),
                               !.skipped_reasons = asm.skipped_reasons]
              ELSE Advance({5})

NextRerun ==
    \/ RerunExtract
    \/ \E window_size \in WindowSizes : RerunBuild(window_size)
    \/ StartSamples /\ UNCHANGED run
    \/ SampleStep /\ UNCHANGED run
    \/ RerunFinish
    \/ Export /\ UNCHANGED run

SpecRerun == InitRerun /\ [][NextRerun]_vars

(* The stages on a feature store as found, whose rows need not come from   *)
(* this version of the extractor: the two rows of a game, written          *)
(* together, may have another arity or hold NaN and infinities, and the    *)
(* home side's document may be unreadable.  Team 1 hosts team 2 in every   *)
(* game.                                                                   *)
StoreIds == 1 .. (MaxGames + 1)
DocKinds == {"plain", "short", "nan", "broken"}

FoundVector(kind, g, home) ==
    CASE kind = "short" -> <<Num(g)>>
      [] kind = "nan" -> <<NaN, Inf(IF home THEN 1 ELSE -1)>>
      [] OTHER -> <<Num(g), Bool01(home)>>

FoundRow(kind, g, home) ==
    [game_date |-> g,
     feature_vector_json |->
        IF kind = "broken" /\ home THEN [ok |-> FALSE, v |-> << >>]
        ELSE json_dumps(FoundVector(kind, g, home))]

FoundFeatures(kinds) ==
    [key \in {1, 2} \X StoreIds |-> FoundRow(kinds[key[2]], key[2], key[1] = 1)]

StoreGames == [g \in StoreIds |-> SimpleRow(g, g, <<1, 2>>, ScoreOf(g))]

InitStore ==
    /\ games = StoreGames
    /\ team_features \in {FoundFeatures(kinds) : kinds \in [StoreIds -> DocKinds]}
    /\ team_sequences = EmptyTable
    /\ pc = "extracted"
    /\ ext = NoExtraction
    /\ seq = NoBuild
    /\ asm = NoSamples
    /\ exp = NoExport
    /\ run = NoRun

NextStore ==
    \/ \E window_size \in WindowSizes : BuildAllSequences(window_size) /\ UNCHANGED run
    \/ StartSamples /\ UNCHANGED run
    \/ SampleStep /\ UNCHANGED run
    \/ FinishSamples /\ UNCHANGED run
    \/ Export /\ UNCHANGED run

SpecStore == InitStore /\ [][NextStore]_vars

(* extract_all_features on the extraction inputs. *)
(* The pipeline from an empty database: initialize_db, ingestion of one   *)
(* feed, extraction.                                                       *)
InitIngest ==
    /\ games = EmptyTable
    /\ team_features = EmptyTable
    /\ team_sequences = EmptyTable
    /\ pc = "empty"
    /\ ext = NoExtraction
    /\ seq = NoBuild
    /\ asm = NoSamples
    /\ exp = NoExport
    /\ run = NoRun

NextIngest ==
    \/ \E rows \in Feeds : Ingest(rows) /\ UNCHANGED run
    \/ ExtractAllFeatures /\ UNCHANGED run

SpecIngest == InitIngest /\ [][NextIngest]_vars

(* run_full_pipeline: initialize_db, ingest_main, extract_all_features,    *)
(* build_all_sequences() with its default window size, dataset main; pc is *)
(* the position in that sequence of calls.                                 *)

(* Mutant: the sequence table is not dropped. *)
initialize_db_KeepsSequences(db) ==
    [games |-> EmptyTable, team_features |-> EmptyTable,
     team_sequences |-> db.team_sequences]

(* The three tables are dropped and created again by the schema script. *)
initialize_db(db) ==
    [games |-> EmptyTable, team_features |-> EmptyTable, team_sequences |-> EmptyTable]

ResetStore ==
    /\ pc = "start"
    /\ LET db == initialize_db([games |-> games, team_features |-> team_features,
                                team_sequences |-> team_sequences])
       IN  /\ games' = db.games
           /\ team_features' = db.team_features
           /\ team_sequences' = db.team_sequences
    /\ pc' = "empty"
    /\ UNCHANGED <<ext, seq, asm, exp>>

(* What an earlier run may have left: nothing, or the rows of a game that  *)
(* is ingested again and of a game that is not, with vectors and windows   *)
(* of another shape.                                                       *)
EarlierIds == {1, 2 * DefaultWindowSize}

EarlierStores ==
    {[games |-> EmptyTable, team_features |-> EmptyTable, team_sequences |-> EmptyTable],
     [games |-> [g \in EarlierIds |-> SimpleRow(g, g, <<1, 2>>, ScoreOf(g))],
      team_features |-> [key \in {1, 2} \X EarlierIds |->
                           FoundRow("plain", key[2], key[1] = 1)],
      team_sequences |-> [key \in {1, 2} \X EarlierIds |->
                            json_dumps(<<FoundVector("plain", key[2], key[1] = 1)>>)]]}

(* The feeds of this run: teams 1 and 2 meet in one game less than the     *)
(* window size, in as many, or in one more; the first game is listed in    *)
(* any of the ways of the feed family, the others alternate the order of   *)
(* their two rows.                                                         *)
PipelineSizes == {DefaultWindowSize - 1, DefaultWindowSize, DefaultWindowSize + 1}

PipelineFeed(n, c) ==
    Concat([g \in 1 .. n |->
              ListingOf(g, IF g = 1 THEN c
                           ELSE <<"vs.", "@", IF g % 2 = 0 THEN "as is" ELSE "swapped">>)],
           n)

PipelineFeeds ==
    {PipelineFeed(n, c) :
       n \in PipelineSizes,
       c \in {<<"vs.", "@", "as is">>, <<"@", "vs.", "as is">>, <<"vs.", "@", "third">>}}

InitPipeline ==
    /\ \E db \in EarlierStores :
         /\ games = db.games
         /\ team_features = db.team_features
         /\ team_sequences = db.team_sequences
         /\ run = [NoRun EXCEPT !.features = db.team_features,
                                !.sequences = db.team_sequences]
    /\ pc = "start"
    /\ ext = NoExtraction
    /\ seq = NoBuild
    /\ asm = NoSamples
    /\ exp = NoExport

NextPipeline ==
    \/ ResetStore /\ UNCHANGED run
    \/ \E rows \in PipelineFeeds : Ingest(rows) /\ UNCHANGED run
    \/ pc = "ingested" /\ ExtractAllFeatures /\ UNCHANGED run
    \/ pc = "extracted" /\ BuildAllSequences(DefaultWindowSize) /\ UNCHANGED run
    \/ pc = "built" /\ StartSamples /\ UNCHANGED run
    \/ SampleStep /\ UNCHANGED run
    \/ FinishSamples /\ UNCHANGED run
    \/ Export /\ UNCHANGED run

SpecPipeline == InitPipeline /\ [][NextPipeline]_vars

InitStats == InitWith(StatTables)
NextStats == ExtractAllFeatures /\ UNCHANGED run
SpecStats == InitStats /\ [][NextStats]_vars

----------------------------------------------------------------------------
(* What the claims speak about, stated without the operators above. *)

FeatureDate(team_id, g) == team_features[<<team_id, g>>].game_date
FeatureVec(team_id, g) == team_features[<<team_id, g>>].feature_vector_json.v

(* The games of a team that have a stored vector, and the position of one  *)
(* of them in (date, game id) order, counted from 1.                       *)
AllGameIds == GameIds \cup ScenarioIds

GamesWithFeatures(team_id) == {g \in AllGameIds : <<team_id, g>> \in DOMAIN team_features}

Earlier(team_id, h, g) ==
    \/ FeatureDate(team_id, h) < FeatureDate(team_id, g)
    \/ (FeatureDate(team_id, h) = FeatureDate(team_id, g) /\ h < g)

Rank(team_id, g) ==
    1 + Cardinality({h \in GamesWithFeatures(team_id) : Earlier(team_id, h, g)})

GameAtRank(team_id, r) == CHOOSE g \in GamesWithFeatures(team_id) : Rank(team_id, g) = r

SequenceGames(team_id) == {g \in AllGameIds : <<team_id, g>> \in DOMAIN team_sequences}

StoredSequence(team_id, g) == team_sequences[<<team_id, g>>].v

(* C1: for a team with N stored vectors and window size W, the call        *)
(* returns N - W + 1 and writes that many sequences, each of length W, in  *)
(* ascending terminal-game order, when N >= W; when N < W it returns 0 and *)
(* leaves the team's part of the sequence store as it was.                 *)
C1_BuildOf(team_id) ==
    LET n == Cardinality(GamesWithFeatures(team_id))
        w == seq'.window_size
        r == seq'.report[team_id]
    IN  /\ r.n = n
        /\ n >= w =>
             /\ r.ret = n - w + 1
             /\ Len(r.written) = n - w + 1
             /\ \A j \in 1 .. Len(r.written) :
                  /\ Rank(team_id, r.written[j]) = w - 1 + j
                  /\ <<team_id, r.written[j]>> \in DOMAIN team_sequences'
                  /\ Len(team_sequences'[<<team_id, r.written[j]>>].v) = w
        /\ n < w =>
             /\ r.ret = 0
             /\ r.written = << >>
             /\ \A g \in AllGameIds :
                  /\ <<team_id, g>> \in DOMAIN team_sequences'
                        <=> <<team_id, g>> \in DOMAIN team_sequences
                  /\ <<team_id, g>> \in DOMAIN team_sequences =>
                        team_sequences'[<<team_id, g>>] = team_sequences[<<team_id, g>>]

C1_SequenceCount ==
    [][pc' = "built" =>
         /\ DOMAIN seq'.report = {t \in TeamIds : GamesWithFeatures(t) # {}}
         /\ \A t \in DOMAIN seq'.report : C1_BuildOf(t)]_vars

C1_Witness ==
    /\ pc = "built"
    /\ \E t \in DOMAIN seq.report : seq.report[t].ret >= 2
    /\ \E t \in DOMAIN seq.report :
         /\ seq.report[t].n < seq.window_size
         /\ seq.report[t].ret = 0

(* C2: the sequence stored under (team, g) is the list of the team's       *)
(* vectors of the consecutive games, in (date, game id) order, that end at *)
(* g and include g; a call with window size W writes W of them, so a team  *)
(* with exactly W games gets one sequence, its full ordered list.          *)
C2_IsWindowEndingAt(team_id, g, s) ==
    /\ Len(s) >= 1
    /\ Len(s) <= Rank(team_id, g)
    /\ \A j \in 1 .. Len(s) :
         s[j] = FeatureVec(team_id, GameAtRank(team_id, Rank(team_id, g) - Len(s) + j))
    /\ s[Len(s)] = FeatureVec(team_id, g)

C2_WindowContent ==
    /\ \A t \in TeamIds : \A g \in SequenceGames(t) :
         /\ g \in GamesWithFeatures(t)
         /\ C2_IsWindowEndingAt(t, g, StoredSequence(t, g))
    /\ pc = "built" =>
         \A t \in DOMAIN seq.report :
           /\ \A j \in 1 .. Len(seq.report[t].written) :
                Len(StoredSequence(t, seq.report[t].written[j])) = seq.window_size
           /\ seq.report[t].n = seq.window_size =>
                /\ Len(seq.report[t].written) = 1
                /\ StoredSequence(t, seq.report[t].written[1])
                     = [j \in 1 .. seq.window_size |-> FeatureVec(t, GameAtRank(t, j))]

C2_Witness ==
    /\ pc = "built"
    /\ \E t \in DOMAIN seq.report :
         /\ seq.report[t].n = seq.window_size
         /\ seq.window_size = 3
         /\ seq.report[t].ret = 1
         /\ \E g, h \in GamesWithFeatures(t) : g < h /\ Earlier(t, h, g)

(* C3: every emitted sample has winA = 1 exactly when the home score      *)
(* stored for its game is strictly greater than the away score, and       *)
(* winA = 0 otherwise; in particular equal scores give 0.                  *)
C3_LabelRule ==
    \A j \in 1 .. Len(asm.samples) :
      LET s == asm.samples[j]
          game == games[s.game_id]
      IN  /\ s.winA \in {0, 1}
          /\ s.winA = 1 <=> game.home_score > game.away_score
          /\ game.home_score = game.away_score => s.winA = 0
          /\ s.scoreA = game.home_score /\ s.scoreB = game.away_score

C3_Witness ==
    /\ pc = "assembled"
    /\ \E j, k \in 1 .. Len(asm.samples) :
         /\ asm.samples[j].scoreA = asm.samples[j].scoreB
         /\ asm.samples[j].winA = 0
         /\ asm.samples[k].scoreA > asm.samples[k].scoreB
         /\ asm.samples[k].winA = 1

(* C4: in every emitted sample sequenceA and sequenceB are two-dimensional *)
(* arrays with the same number of timesteps and the same number of fields  *)
(* per timestep, and when the samples can be stacked for export the two    *)
(* stacked arrays have the same shape.                                     *)
C4_SampleSequences(which) == [j \in 1 .. Len(asm.samples) |-> asm.samples[j][which]]

C4_SameShape ==
    /\ \A j \in 1 .. Len(asm.samples) :
         LET a == asm.samples[j].sequenceA
             b == asm.samples[j].sequenceB
         IN  /\ Len(a.shape) = 2 /\ Len(b.shape) = 2
             /\ a.shape[1] = b.shape[1]
             /\ a.shape[2] = b.shape[2]
             /\ Len(a.data) = Len(b.data)
             /\ \A r \in 1 .. Len(a.data) : Len(a.data[r]) = Len(b.data[r])
    /\ LET x == np_stack(C4_SampleSequences("sequenceA"))
           y == np_stack(C4_SampleSequences("sequenceB"))
       IN  /\ x.ok <=> y.ok
           /\ x.ok => x.shape = y.shape

C4_Witness ==
    /\ pc = "assembled"
    /\ Len(asm.samples) >= 2
    /\ asm.samples[1].sequenceA.shape = <<2, NumFeatures>>
    /\ asm.samples[1].sequenceB.shape = <<2, NumFeatures>>
    /\ np_stack(C4_SampleSequences("sequenceA")).shape = <<Len(asm.samples), 2, NumFeatures>>

(* What an iteration of the assembler's loop finds for the game it is      *)
(* about to process, read from the sequence store itself.                  *)
NextGame == asm.order[asm.i + 1]
HomeAbsent == <<games[NextGame].home_team_id, NextGame>> \notin DOMAIN team_sequences
AwayAbsent == <<games[NextGame].away_team_id, NextGame>> \notin DOMAIN team_sequences
LengthsDiffer ==
    /\ ~HomeAbsent
    /\ ~AwayAbsent
    /\ Len(StoredSequence(games[NextGame].home_team_id, NextGame))
         # Len(StoredSequence(games[NextGame].away_team_id, NextGame))

IsIteration == pc = "sampling" /\ asm'.i = asm.i + 1

Rejected == Len(asm'.samples) = Len(asm.samples)

Counted(reason) == asm'.skipped_reasons[reason] - asm.skipped_reasons[reason]

(* C6 as stated: a game is rejected exactly when its home sequence is      *)
(* absent, its away sequence is absent, or both are present with different *)
(* window lengths, and each condition that holds adds one to its own       *)
(* counter, also when both sequences are absent.                           *)
C6_CountedIndependently ==
    [][IsIteration =>
         /\ Rejected <=> (HomeAbsent \/ AwayAbsent \/ LengthsDiffer)
         /\ Counted("no_home_sequence") = (IF HomeAbsent THEN 1 ELSE 0)
         /\ Counted("no_away_sequence") = (IF AwayAbsent THEN 1 ELSE 0)
         /\ Counted("invalid_sequence") = (IF LengthsDiffer THEN 1 ELSE 0)]_vars

(* C6, amended: a game is rejected exactly when one of the three           *)
(* conditions holds, and a rejected game adds one to exactly one counter,  *)
(* that of the first condition that holds in the order home absent, away   *)
(* absent, lengths differ; a game with both sequences absent is counted as *)
(* a missing home sequence only.                                           *)
C6_CountedOnce ==
    [][IsIteration =>
         /\ Rejected <=> (HomeAbsent \/ AwayAbsent \/ LengthsDiffer)
         /\ Counted("no_home_sequence") = (IF HomeAbsent THEN 1 ELSE 0)
         /\ Counted("no_away_sequence") = (IF ~HomeAbsent /\ AwayAbsent THEN 1 ELSE 0)
         /\ Counted("invalid_sequence") = (IF LengthsDiffer THEN 1 ELSE 0)]_vars

C6_Witness ==
    /\ pc = "assembled"
    /\ asm.skipped_reasons["no_home_sequence"] >= 1
    /\ asm.skipped_reasons["no_away_sequence"] >= 1
    /\ asm.skipped_reasons["invalid_sequence"] >= 1
    /\ \E g \in DOMAIN games :
         /\ <<games[g].home_team_id, g>> \notin DOMAIN team_sequences
         /\ <<games[g].away_team_id, g>> \notin DOMAIN team_sequences

(* C7: while the assembler runs and when it has finished, the number of    *)
(* samples plus the number of skipped games is the number of games         *)
(* processed so far (all of them at the end), and the number of skipped    *)
(* games is the sum of the three per-reason counters.                      *)
C7_Accounting ==
    pc \in {"sampling", "assembled"} =>
      /\ Len(asm.samples) + asm.skipped = asm.i
      /\ asm.skipped = asm.skipped_reasons["no_home_sequence"]
                         + asm.skipped_reasons["no_away_sequence"]
                         + asm.skipped_reasons["invalid_sequence"]
      /\ DOMAIN asm.skipped_reasons
           = {"no_home_sequence", "no_away_sequence", "invalid_sequence"}
      /\ pc = "assembled" => asm.i = Cardinality(DOMAIN games)

C7_Witness ==
    /\ pc = "sampling"
    /\ asm.i = 2
    /\ asm.i < Len(asm.order)
    /\ Len(asm.samples) = 1
    /\ asm.skipped = 1

(* The scenario: team 1 is A (9 games), team 2 is B (12 games), the window *)
(* size is 10 and the sequence builder has run.                            *)
ScenarioBuilt ==
    /\ pc' = "built"
    /\ seq'.window_size = DefaultWindowSize
    /\ 1 \in DOMAIN seq'.report
    /\ 2 \in DOMAIN seq'.report
    /\ seq'.report[1].n = ScenarioGamesA
    /\ seq'.report[2].n = ScenarioGamesB

ScenarioCounts ==
    /\ seq'.report[1].ret = 0
    /\ {g \in AllGameIds : <<1, g>> \in DOMAIN team_sequences'} = {}
    /\ seq'.report[2].ret = 3
    /\ Cardinality({g \in AllGameIds : <<2, g>> \in DOMAIN team_sequences'}) = 3

(* The assembler is about to process the game between A and B, with the    *)
(* sequences of the scenario in the store.                                 *)
ScenarioMatchup ==
    /\ IsIteration
    /\ {games[NextGame].home_team_id, games[NextGame].away_team_id} = {1, 2}
    /\ SequenceGames(1) = {}
    /\ Cardinality(SequenceGames(2)) = 3

SideOf(team_id) ==
    IF games[NextGame].home_team_id = team_id THEN "no_home_sequence"
    ELSE "no_away_sequence"

(* C5 as stated: with window size 10, A (9 games) yields 0 sequences and B *)
(* (12 games) yields 3, and the game between A and B is rejected with the  *)
(* missing-sequence reason of A's side, whichever of them is home and      *)
(* whichever of B's games it is.                                           *)
C5_RejectedForTeamA ==
    [][/\ ScenarioBuilt => ScenarioCounts
       /\ ScenarioMatchup =>
            /\ Rejected
            /\ Counted(SideOf(1)) = 1
            /\ Counted(SideOf(2)) = 0
            /\ Counted("invalid_sequence") = 0]_vars

(* C5, amended: A yields 0 sequences and B yields 3, and the game between  *)
(* A and B is always rejected for a missing sequence; the reason counted   *)
(* is that of A's side when A is home or when B is home and has a sequence *)
(* ending at that game (one of B's last 3 games), and is that of the home  *)
(* side, B's, when B is home and the game is one of B's first 9.           *)
C5_RejectedForMissingSequence ==
    [][/\ ScenarioBuilt => ScenarioCounts
       /\ ScenarioMatchup =>
            /\ Rejected
            /\ Counted("invalid_sequence") = 0
            /\ Counted("no_home_sequence") + Counted("no_away_sequence") = 1
            /\ IF games[NextGame].home_team_id = 2 /\ NextGame \notin SequenceGames(2)
               THEN Counted(SideOf(2)) = 1
               ELSE Counted(SideOf(1)) = 1]_vars

C5_Witness ==
    /\ pc = "assembled"
    /\ SequenceGames(1) = {}
    /\ Cardinality(SequenceGames(2)) = 3
    /\ Cardinality(GamesWithFeatures(1)) = ScenarioGamesA
    /\ Cardinality(GamesWithFeatures(2)) = ScenarioGamesB
    /\ \E g \in SequenceGames(2) :
         /\ games[g].home_team_id = 2
         /\ games[g].away_team_id = 1
    /\ asm.skipped_reasons["no_away_sequence"] >= 1

(* The raw records of a game that carry a team's id, and the stored fields *)
(* of a (team, game) pair by their position in the vector.                 *)
RecordsOf(g, team_id) ==
    {i \in 1 .. Len(games[g].raw_json) :
        /\ games[g].raw_json[i].TEAM_ID.k = "fin"
        /\ games[g].raw_json[i].TEAM_ID.d = 1
        /\ games[g].raw_json[i].TEAM_ID.n = team_id}

RecordOf(g, team_id) == games[g].raw_json[CHOOSE i \in RecordsOf(g, team_id) : TRUE]

StoredPairs == {key \in TeamIds \X AllGameIds : key \in DOMAIN team_features}

(* C8: every stored feature vector has exactly 22 fields and every field   *)
(* is a finite number: a field that the formulas or the raw values make    *)
(* NaN or infinite is stored as 0.0.                                       *)
C8_FiniteVector ==
    \A key \in StoredPairs :
      LET v == FeatureVec(key[1], key[2])
      IN  /\ Len(v) = NumFeatures
          /\ Len(v) = NumBaseFeatures + 2
          /\ \A i \in 1 .. Len(v) : IsFinite(v[i])
          /\ \A r \in RecordsOf(key[2], key[1]) :
               LET raw == games[key[2]].raw_json[r]
               IN  /\ (isnan(raw.PTS) \/ isinf(raw.PTS)) => v[1] = Num(0)
                   /\ (isnan(raw.FGA) \/ isinf(raw.FGA)) => v[7] = Num(0)
                   /\ (isnan(raw.PLUS_MINUS) \/ isinf(raw.PLUS_MINUS)) => v[20] = Num(0)

C8_Witness ==
    /\ pc = "extracted"
    /\ <<1, 1>> \in DOMAIN team_features
    /\ Len(games[1].raw_json) = 2
    /\ isinf(RecordOf(1, 1).FGA)
    /\ FeatureVec(1, 1)[7] = Num(0)
    /\ FeatureVec(1, 1)[18] = Num(0)

(* A record with the numbers of a real box score: non-negative integers,   *)
(* makes no more than attempts, three-pointers among the field goals, and  *)
(* the points the sum of what was made.                                    *)
IsCount(x) == x.k = "fin" /\ x.d = 1 /\ x.n >= 0

ValidBoxScore(e) ==
    /\ \A key \in {"PTS", "FGM", "FGA", "FG3M", "FG3A", "FTM", "FTA"} : IsCount(e[key])
    /\ e.FG3M.n <= e.FG3A.n /\ e.FG3A.n <= e.FGA.n
    /\ e.FG3M.n <= e.FGM.n /\ e.FGM.n <= e.FGA.n
    /\ e.FTM.n <= e.FTA.n
    /\ e.PTS.n = 2 * e.FGM.n + e.FG3M.n + e.FTM.n

(* 0 <= x <= n/d, and the rule of a percentage with the given denominator. *)
Within(x, n, d) == x.k = "fin" /\ x.n >= 0 /\ x.n * d <= n * x.d

Percentage(x, denominator, n, d) ==
    IF denominator > 0 THEN Within(x, n, d) ELSE x = Num(0)

ValidStored ==
    {key \in StoredPairs :
        /\ Len(games[key[2]].raw_json) = 2
        /\ Cardinality(RecordsOf(key[2], key[1])) = 1
        /\ ValidBoxScore(RecordOf(key[2], key[1]))}

(* C9 as stated: for a valid record each of fg_pct, fg3_pct, ft_pct,       *)
(* efg_pct and ts_pct is in [0, 1] when its denominator is positive and    *)
(* exactly 0.0 otherwise.                                                  *)
C9_UnitInterval ==
    \A key \in ValidStored :
      LET e == RecordOf(key[2], key[1])
          v == FeatureVec(key[1], key[2])
      IN  /\ Percentage(v[2], e.FGA.n, 1, 1)
          /\ Percentage(v[3], e.FG3A.n, 1, 1)
          /\ Percentage(v[4], e.FTA.n, 1, 1)
          /\ Percentage(v[5], e.FGA.n, 1, 1)
          /\ Percentage(v[6], e.FGA.n + e.FTA.n, 1, 1)

(* C9, amended: for a valid record fg_pct, fg3_pct and ft_pct are in       *)
(* [0, 1] and efg_pct and ts_pct are in [0, 3/2] when the denominator is   *)
(* positive, each is exactly 0.0 otherwise, and a valid record with        *)
(* FGA = 0 is extracted (nothing is raised) with fg_pct = efg_pct = 0.0.   *)
C9_PercentageRange ==
    /\ \A key \in ValidStored :
         LET e == RecordOf(key[2], key[1])
             v == FeatureVec(key[1], key[2])
         IN  /\ Percentage(v[2], e.FGA.n, 1, 1)
             /\ Percentage(v[3], e.FG3A.n, 1, 1)
             /\ Percentage(v[4], e.FTA.n, 1, 1)
             /\ Percentage(v[5], e.FGA.n, 3, 2)
             /\ Percentage(v[6], e.FGA.n + e.FTA.n, 3, 2)
             /\ e.FGA.n = 0 => v[2] = Num(0) /\ v[5] = Num(0)
    /\ pc = "extracted" =>
         \A g \in DOMAIN games :
           LET raw == games[g].raw_json
           IN  (/\ Len(raw) = 2
                /\ RecordsOf(g, 1) # {} /\ RecordsOf(g, 2) # {}
                /\ {games[g].home_team_id, games[g].away_team_id} = {1, 2}
                /\ ValidBoxScore(RecordOf(g, 1))
                /\ RecordOf(g, 1).FGA.n = 0
                /\ CanFloat(RecordOf(g, 1), StatKeys)
                /\ CanFloat(RecordOf(g, 2), OppKeys))
               => <<1, g>> \in ext.written

C9_Witness ==
    /\ pc = "extracted"
    /\ <<1, 1>> \in ValidStored
    /\ RecordOf(1, 1).FGA.n = 1
    /\ RecordOf(1, 1).FTA.n = 0
    /\ FeatureVec(1, 1)[5] = Fin(3, 2)
    /\ FeatureVec(1, 1)[6] = Fin(3, 2)
    /\ FeatureVec(1, 1)[4] = Num(0)

(* C10: a side of a game is rejected, and nothing is stored for its        *)
(* (team, game) pair, whenever the game does not carry exactly two records *)
(* or no record carries the side's id or none the opponent's (also when    *)
(* the two ids are equal); the run goes on: every side of every game is    *)
(* counted as inserted or skipped and the later game is stored.            *)
C10_MustReject(g, team_id, opponent_id) ==
    \/ Len(games[g].raw_json) # 2
    \/ RecordsOf(g, team_id) = {}
    \/ RecordsOf(g, opponent_id) = {}
    \/ team_id = opponent_id

C10_Sides(g) ==
    {<<games[g].home_team_id, games[g].away_team_id>>,
     <<games[g].away_team_id, games[g].home_team_id>>}

C10_RejectedNotStored ==
    /\ \A g \in DOMAIN games : \A side \in C10_Sides(g) :
         C10_MustReject(g, side[1], side[2]) => <<side[1], g>> \notin DOMAIN team_features
    /\ pc = "extracted" =>
         /\ ext.inserted + ext.skipped = 2 * Cardinality(DOMAIN games)
         /\ ext.inserted = Cardinality(ext.written)
         /\ ext.written = DOMAIN team_features
         /\ \A g \in DOMAIN games : \A side \in C10_Sides(g) :
              ~C10_MustReject(g, side[1], side[2])
                 /\ CanFloat(RecordOf(g, side[1]), StatKeys)
                 /\ CanFloat(RecordOf(g, side[2]), OppKeys)
                 /\ (\A i \in 1 .. 2 : CanInt(games[g].raw_json[i]))
              => <<side[1], g>> \in ext.written

C10_Witness ==
    /\ pc = "extracted"
    /\ Len(games[1].raw_json) = 3
    /\ RecordsOf(1, 1) # {} /\ RecordsOf(1, 2) # {}
    /\ games[1].home_team_id # games[1].away_team_id
    /\ ext.skipped = 2
    /\ ext.inserted = 2
    /\ ext.written = {<<1, 2>>, <<2, 2>>}

(* C11: once extraction, sequence building and assembly have each run on   *)
(* a games table, running them again any number of times with the same     *)
(* window size leaves the feature store and the sequence store as they     *)
(* were after the first pass, one row per (team, game), and every later    *)
(* assembly gives the same number of samples and the same skip counters.   *)
C11_Idempotent ==
    run.stage >= 3 =>
      /\ team_features = run.features
      /\ team_sequences = run.sequences
      /\ pc \in {"assembled", "exported"} =>
           /\ Len(asm.samples) = run.samples
           /\ asm.skipped_reasons = run.skipped_reasons
      /\ pc = "built" =>
           \A t \in DOMAIN seq.report : \A j \in 1 .. Len(seq.report[t].written) :
             <<t, seq.report[t].written[j]>> \in DOMAIN run.sequences
      /\ pc = "extracted" => ext.written = DOMAIN run.features

C11_Witness ==
    /\ run.stage = 6
    /\ pc = "assembled"
    /\ run.samples >= 1
    /\ run.skipped_reasons["no_home_sequence"] >= 1
    /\ Len(asm.samples) = run.samples

(* C12: when a build has completed, the sequences stored for each team it  *)
(* processed are exactly the windows of the team's current feature vectors *)
(* for the window size of that build, one per game from the W-th on, each  *)
(* of length W; no row of an earlier build is left over.                   *)
C12_ReplaceNotMerge ==
    [][pc' = "built" =>
         \A t \in DOMAIN seq'.report :
           /\ {g \in AllGameIds : <<t, g>> \in DOMAIN team_sequences'}
                = {g \in GamesWithFeatures(t) : Rank(t, g) >= seq'.window_size}
           /\ \A g \in AllGameIds :
                <<t, g>> \in DOMAIN team_sequences'
                   => Len(team_sequences'[<<t, g>>].v) = seq'.window_size]_vars

(* The documents of the window of a team that ends at the game of rank i,  *)
(* for the window size of the build that is completing.                    *)
WindowDocs(t, i) ==
    [j \in 1 .. seq'.window_size |->
        team_features[<<t, GameAtRank(t, i - seq'.window_size + j)>>].feature_vector_json]

Readable(docs) == \A j \in 1 .. Len(docs) : docs[j].ok

OneArity(docs) ==
    /\ Readable(docs)
    /\ \A j \in 1 .. Len(docs) : Len(docs[j].v) = Len(docs[1].v)

WindowRanks(t) == seq'.window_size .. Cardinality(GamesWithFeatures(t))

Untouched(key) ==
    /\ key \in DOMAIN team_sequences' <=> key \in DOMAIN team_sequences
    /\ key \in DOMAIN team_sequences => team_sequences'[key] = team_sequences[key]

Stored(t, i) ==
    /\ <<t, GameAtRank(t, i)>> \in DOMAIN team_sequences'
    /\ team_sequences'[<<t, GameAtRank(t, i)>>].v
         = [j \in 1 .. seq'.window_size |-> WindowDocs(t, i)[j].v]

(* C13: when a build completes, for a team that has a window whose        *)
(* (readable) vectors do not all have the same arity, every such window    *)
(* has written nothing for its terminal game, and every other window of    *)
(* the team whose vectors share one arity is stored.                       *)
Mismatched(t, i) == Readable(WindowDocs(t, i)) /\ ~OneArity(WindowDocs(t, i))

C13_ArityWindowSkippedAlone ==
    [][pc' = "built" =>
         \A t \in DOMAIN seq'.report :
           (\E i \in WindowRanks(t) : Mismatched(t, i)) =>
              \A i \in WindowRanks(t) :
                /\ Mismatched(t, i) => Untouched(<<t, GameAtRank(t, i)>>)
                /\ OneArity(WindowDocs(t, i)) => Stored(t, i)]_vars

(* C14: a stored feature vector that cannot be read costs only the windows *)
(* that contain it: when a build completes, for every team the windows     *)
(* with an unreadable vector have written nothing and every window whose   *)
(* vectors are readable and share one arity is stored, for the team with   *)
(* the unreadable vector as for the other teams.                           *)
HasUnreadable(t) ==
    \E g \in GamesWithFeatures(t) : ~team_features[<<t, g>>].feature_vector_json.ok

C14_FailureContained ==
    [][(pc' = "built" /\ \E t \in DOMAIN seq'.report : HasUnreadable(t)) =>
         \A t \in DOMAIN seq'.report : \A i \in WindowRanks(t) :
           /\ ~Readable(WindowDocs(t, i)) => Untouched(<<t, GameAtRank(t, i)>>)
           /\ OneArity(WindowDocs(t, i)) => Stored(t, i)]_vars

(* C15: every skip has its own counter: after an extraction inserted plus  *)
(* skipped is twice the number of games, and after a build a team is       *)
(* counted as skipped for insufficient games only when it has fewer games  *)
(* than the window size (or a vector that cannot be read), never because   *)
(* its windows were skipped for arity mismatch.                            *)
C15_NamedCounters ==
    /\ pc = "extracted" /\ ext # NoExtraction =>
         ext.inserted + ext.skipped = 2 * Cardinality(DOMAIN games)
    /\ pc = "built" =>
         seq.teams_skipped
           <= Cardinality({t \in DOMAIN seq.report :
                             seq.report[t].n < seq.window_size \/ HasUnreadable(t)})

(* C16: an empty batch is fatal: when the assembly produced no sample no   *)
(* dataset is saved and the pipeline does not go on to report that the     *)
(* training data is ready; when it produced at least one sample the        *)
(* dataset is saved with exactly the produced samples.                     *)
C16_EmptyBatchFatal ==
    pc = "exported" =>
      IF Len(asm.samples) = 0
      THEN exp.status # "saved" /\ ~exp.ready
      ELSE /\ exp.status = "saved"
           /\ exp.tensor_dict.num_samples = Len(asm.samples)
           /\ \A j \in 1 .. Len(asm.samples) :
                /\ exp.tensor_dict.scoreA[j] = <<asm.samples[j].scoreA>>
                /\ exp.tensor_dict.scoreB[j] = <<asm.samples[j].scoreB>>
                /\ exp.tensor_dict.winA[j] = <<asm.samples[j].winA>>

(* C17: build_matchup_samples visits the games in ascending (date, id)     *)
(* order and emits the samples in that order: of two emitted samples the   *)
(* earlier has the key that is not greater; and its output is a function   *)
(* of the store: the samples are the games with both sequences stored at   *)
(* equal lengths, each at the position its key gives it, and each counter  *)
(* is the number of games of the store with that defect.                   *)
KeyNotGreater(g, h) ==
    \/ games[g].game_date < games[h].game_date
    \/ (games[g].game_date = games[h].game_date /\ g <= h)

HomeKey(g) == <<games[g].home_team_id, g>>
AwayKey(g) == <<games[g].away_team_id, g>>

Eligible(g) ==
    /\ HomeKey(g) \in DOMAIN team_sequences
    /\ AwayKey(g) \in DOMAIN team_sequences
    /\ Len(team_sequences[HomeKey(g)].v) = Len(team_sequences[AwayKey(g)].v)

EligibleUpTo(g) ==
    Cardinality({h \in DOMAIN games : Eligible(h) /\ KeyNotGreater(h, g)})

C17_DateOrder ==
    pc \in {"sampling", "assembled", "exported"} =>
      /\ Len(asm.order) = Cardinality(DOMAIN games)
      /\ \A j \in 1 .. Len(asm.order) : \A k \in 1 .. Len(asm.order) :
           /\ asm.order[j] \in DOMAIN games
           /\ j < k => asm.order[j] # asm.order[k]
                         /\ KeyNotGreater(asm.order[j], asm.order[k])
      /\ \A j \in 1 .. Len(asm.samples) :
           /\ asm.samples[j].game_date = games[asm.samples[j].game_id].game_date
           /\ \A k \in 1 .. Len(asm.samples) :
                j < k => KeyNotGreater(asm.samples[j].game_id, asm.samples[k].game_id)
      /\ pc # "sampling" =>
           /\ Len(asm.samples) = Cardinality({g \in DOMAIN games : Eligible(g)})
           /\ \A j \in 1 .. Len(asm.samples) :
                /\ Eligible(asm.samples[j].game_id)
                /\ EligibleUpTo(asm.samples[j].game_id) = j
                /\ asm.samples[j].sequenceA
                     = load_sequence(team_sequences,
                                     games[asm.samples[j].game_id].home_team_id,
                                     asm.samples[j].game_id)
                /\ asm.samples[j].sequenceB
                     = load_sequence(team_sequences,
                                     games[asm.samples[j].game_id].away_team_id,
                                     asm.samples[j].game_id)
           /\ asm.skipped_reasons["no_home_sequence"]
                = Cardinality({g \in DOMAIN games : HomeKey(g) \notin DOMAIN team_sequences})
           /\ asm.skipped_reasons["no_away_sequence"]
                = Cardinality({g \in DOMAIN games :
                                 /\ HomeKey(g) \in DOMAIN team_sequences
                                 /\ AwayKey(g) \notin DOMAIN team_sequences})
           /\ asm.skipped_reasons["invalid_sequence"]
                = Cardinality({g \in DOMAIN games :
                                 /\ HomeKey(g) \in DOMAIN team_sequences
                                 /\ AwayKey(g) \in DOMAIN team_sequences
                                 /\ ~Eligible(g)})

C17_Witness ==
    /\ pc = "assembled"
    /\ Len(asm.samples) >= 2
    /\ asm.samples[1].game_id > asm.samples[2].game_id
    /\ asm.samples[1].game_date < asm.samples[2].game_date
    /\ asm.skipped >= 1

(* C18: in a saved dataset every NaN or infinite value of the sequence     *)
(* data has become 0.0 and every other value is as stored, so sequenceA    *)
(* and sequenceB hold finite numbers only; each of the five arrays has one *)
(* row per sample, and the metadata gives the number of samples, the       *)
(* window length and the feature arity.                                    *)
ExportedFrom(tensor, which) ==
    /\ Len(tensor) = Len(asm.samples)
    /\ \A j \in 1 .. Len(tensor) :
         /\ Len(tensor[j]) = Len(asm.samples[j][which].data)
         /\ \A r \in 1 .. Len(tensor[j]) :
              /\ Len(tensor[j][r]) = Len(asm.samples[j][which].data[r])
              /\ \A c \in 1 .. Len(tensor[j][r]) :
                   /\ ~isnan(tensor[j][r][c])
                   /\ ~isinf(tensor[j][r][c])
                   /\ tensor[j][r][c]
                        = (IF asm.samples[j][which].data[r][c].k = "fin"
                           THEN asm.samples[j][which].data[r][c]
                           ELSE Num(0))

C18_ExportFinite ==
    pc = "exported" /\ exp.status = "saved" =>
      /\ ExportedFrom(exp.tensor_dict.sequenceA, "sequenceA")
      /\ ExportedFrom(exp.tensor_dict.sequenceB, "sequenceB")
      /\ Len(exp.tensor_dict.scoreA) = Len(asm.samples)
      /\ Len(exp.tensor_dict.scoreB) = Len(asm.samples)
      /\ Len(exp.tensor_dict.winA) = Len(asm.samples)
      /\ exp.tensor_dict.num_samples = Len(asm.samples)
      /\ \A j \in 1 .. Len(asm.samples) :
           /\ exp.tensor_dict.sequence_shape
                = <<Len(exp.tensor_dict.sequenceA[j]),
                    Len(exp.tensor_dict.sequenceA[j][1])>>
           /\ exp.tensor_dict.sequence_shape[1]
                = Len(team_sequences[HomeKey(asm.samples[j].game_id)].v)
           /\ exp.tensor_dict.num_features
                = Len(team_sequences[AwayKey(asm.samples[j].game_id)].v[1])
           /\ exp.tensor_dict.num_features = exp.tensor_dict.sequence_shape[2]

C18_Witness ==
    /\ pc = "exported"
    /\ exp.status = "saved"
    /\ Len(asm.samples) >= 2
    /\ \E j \in 1 .. Len(asm.samples) :
         /\ isnan(asm.samples[j].sequenceA.data[1][1])
         /\ isinf(asm.samples[j].sequenceA.data[1][2])
         /\ isinf(asm.samples[j].sequenceB.data[1][2])
         /\ exp.tensor_dict.sequenceA[j][1] = <<Num(0), Num(0)>>
    /\ \E j \in 1 .. Len(asm.samples) :
         exp.tensor_dict.sequenceA[j][1][1] # Num(0)

(* C20: the last two fields of every stored vector are the indicators the  *)
(* caller appends after the 20 statistical fields: HOME is 1.0 for the     *)
(* game's home team and 0.0 for its away team, WIN is 1.0 exactly when the *)
(* side's score is strictly greater than the other side's; so the two      *)
(* sides of a game never both have WIN = 1.0, and both have WIN = 0.0      *)
(* exactly when the scores are equal.                                      *)
OwnScore(t, g) ==
    IF t = games[g].home_team_id THEN games[g].home_score ELSE games[g].away_score

OtherScore(t, g) ==
    IF t = games[g].home_team_id THEN games[g].away_score ELSE games[g].home_score

HomeIndicator(t, g) == FeatureVec(t, g)[NumBaseFeatures + 1]
WinIndicator(t, g) == FeatureVec(t, g)[NumFeatures]

C20_ContextIndicators ==
    /\ \A key \in DOMAIN team_features :
         /\ key[2] \in DOMAIN games
         /\ key[1] \in {games[key[2]].home_team_id, games[key[2]].away_team_id}
         /\ Len(FeatureVec(key[1], key[2])) = NumFeatures
         /\ HomeIndicator(key[1], key[2])
              = (IF key[1] = games[key[2]].home_team_id THEN Num(1) ELSE Num(0))
         /\ WinIndicator(key[1], key[2])
              = (IF OwnScore(key[1], key[2]) > OtherScore(key[1], key[2])
                 THEN Num(1) ELSE Num(0))
    /\ \A g \in DOMAIN games :
         (HomeKey(g) \in DOMAIN team_features /\ AwayKey(g) \in DOMAIN team_features) =>
           /\ ~(WinIndicator(HomeKey(g)[1], g) = Num(1)
                  /\ WinIndicator(AwayKey(g)[1], g) = Num(1))
           /\ (WinIndicator(HomeKey(g)[1], g) = Num(0)
                 /\ WinIndicator(AwayKey(g)[1], g) = Num(0))
                <=> games[g].home_score = games[g].away_score

C20_Witness ==
    /\ pc = "extracted"
    /\ \E g \in DOMAIN games :
         /\ games[g].home_score = games[g].away_score
         /\ HomeKey(g) \in DOMAIN team_features
         /\ AwayKey(g) \in DOMAIN team_features
         /\ WinIndicator(AwayKey(g)[1], g) = Num(0)
         /\ HomeIndicator(HomeKey(g)[1], g) = Num(1)
    /\ \E g \in DOMAIN games :
         /\ games[g].home_score < games[g].away_score
         /\ AwayKey(g) \in DOMAIN team_features
         /\ WinIndicator(AwayKey(g)[1], g) = Num(1)
         /\ HomeIndicator(AwayKey(g)[1], g) = Num(0)

(* C19 as stated: for every ingested game with two raw records, home and   *)
(* away are determined by the venue marker and not by the position of the  *)
(* records: the same two records in the opposite order store the same home *)
(* team, away team, home score and away score.                             *)
SameSides(row, other) ==
    /\ row.home_team_id = other.home_team_id
    /\ row.away_team_id = other.away_team_id
    /\ row.home_score = other.home_score
    /\ row.away_score = other.away_score

StoredSwapped(g) == ingest_main(EmptyTable, Swapped(games[g].raw_json))

OppositeMarkers(entries) == HasAt(entries[1].MATCHUP) # HasAt(entries[2].MATCHUP)

HomeRecord(entries) == IF HasAt(entries[1].MATCHUP) THEN entries[2] ELSE entries[1]
AwayRecord(entries) == IF HasAt(entries[1].MATCHUP) THEN entries[1] ELSE entries[2]

RowsOf(table, t) == {key \in DOMAIN table : key[1] = t}

Committed(t) == {<<t, seq'.report[t].written[j]>> : j \in 1 .. Len(seq'.report[t].written)}

C23_ReturnIsCommitted ==
    [][pc' = "built" =>
         \A t \in DOMAIN seq'.report :
           /\ seq'.report[t].ret = Cardinality(Committed(t))
           /\ Committed(t) \subseteq RowsOf(team_sequences', t)
           /\ \A key \in RowsOf(team_sequences', t) \ Committed(t) : Untouched(key)
           /\ RowsOf(team_sequences, t) = {} =>
                seq'.report[t].ret = Cardinality(RowsOf(team_sequences', t))]_vars

(* C22: with features, sequences and samples derived from one games table, *)
(* every emitted sample of a game g carries g's outcome in its inputs: the *)
(* last timestep of sequenceA is the home team's stored feature vector of  *)
(* g (as float32), with home indicator 1 and win indicator equal to the    *)
(* label winA, and the last timestep of sequenceB is the away team's       *)
(* stored feature vector of g, with home indicator 0.                      *)
LastTimestep(array) == array.data[array.shape[1]]

AsFloat32(vec) == [c \in 1 .. Len(vec) |-> Float32(vec[c])]

C22_OutcomeInInputs ==
    \A j \in 1 .. Len(asm.samples) :
      LET g == asm.samples[j].game_id
          lastA == LastTimestep(asm.samples[j].sequenceA)
          lastB == LastTimestep(asm.samples[j].sequenceB)
      IN  /\ HomeKey(g) \in DOMAIN team_features
          /\ AwayKey(g) \in DOMAIN team_features
          /\ lastA = AsFloat32(FeatureVec(games[g].home_team_id, g))
          /\ lastB = AsFloat32(FeatureVec(games[g].away_team_id, g))
          /\ Len(lastA) = NumFeatures
          /\ Len(lastB) = NumFeatures
          /\ lastA[NumBaseFeatures + 1] = Num(1)
          /\ lastA[NumFeatures] = Num(asm.samples[j].winA)
          /\ lastB[NumBaseFeatures + 1] = Num(0)

C22_Witness ==
    /\ pc = "assembled"
    /\ \E j, k \in 1 .. Len(asm.samples) :
         /\ asm.samples[j].winA = 1
         /\ LastTimestep(asm.samples[j].sequenceA)[NumFeatures] = Num(1)
         /\ asm.samples[j].sequenceA.shape[1] = 3
         /\ asm.samples[k].winA = 0
         /\ LastTimestep(asm.samples[k].sequenceA)[NumFeatures] = Num(0)
         /\ LastTimestep(asm.samples[k].sequenceB)[NumFeatures] = Num(1)
         /\ asm.samples[k].sequenceA.shape[1] = 2

(* C21: run_full_pipeline runs reset store, ingest, extract features,      *)
(* build sequences, build dataset in this order, each stage after the      *)
(* previous one has finished; and because the store is reset first, every  *)
(* feature row and sequence row that is stored afterwards belongs to a     *)
(* game ingested in this run and is the row this run wrote, so that no row *)
(* of an earlier run survives.                                             *)
StageOrder ==
    {<<"start", "empty">>, <<"empty", "ingested">>, <<"ingested", "extracted">>,
     <<"extracted", "built">>, <<"built", "sampling">>, <<"sampling", "assembled">>,
     <<"assembled", "exported">>}

IngestedIds == {g \in DOMAIN games : "MATCHUP" \in DOMAIN games[g].raw_json[1]}

WrittenThisRun ==
    /\ DOMAIN games = IngestedIds
    /\ \A key \in DOMAIN team_features :
         /\ key[2] \in IngestedIds
         /\ team_features[key].game_date = games[key[2]].game_date
         /\ Len(team_features[key].feature_vector_json.v) = NumFeatures
         /\ key \in DOMAIN run.features => team_features[key] # run.features[key]
    /\ \A key \in DOMAIN team_sequences :
         /\ key[2] \in IngestedIds
         /\ key \in DOMAIN team_features
         /\ Len(team_sequences[key].v) = DefaultWindowSize
         /\ team_sequences[key].v[DefaultWindowSize]
              = team_features[key].feature_vector_json.v
         /\ key \in DOMAIN run.sequences => team_sequences[key] # run.sequences[key]

C21_StagesInOrder ==
    /\ [](pc # "start" => WrittenThisRun)
    /\ [](/\ pc = "empty" => games = EmptyTable
          /\ pc \in {"empty", "ingested"} => team_features = EmptyTable
          /\ pc \in {"empty", "ingested", "extracted"} => team_sequences = EmptyTable
          /\ pc \in {"start", "empty", "ingested", "extracted", "built"} =>
               asm = NoSamples
          /\ pc # "exported" => exp = NoExport)
    /\ [][pc' # pc => <<pc, pc'>> \in StageOrder]_vars

C21_Witness ==
    /\ pc = "exported"
    /\ exp.status = "saved"
    /\ run.sequences # EmptyTable
    /\ DOMAIN team_sequences # {}
    /\ 1 \in IngestedIds
    /\ <<1, 1>> \in DOMAIN team_features

====
